---- MODULE Spec2Model ----
(***************************************************************************)
(* Qubit-layout benchmarking harness: topology generation                  *)
(* (architectures.py), layout strategies and the exhaustive layout search  *)
(* with its on-disk table cache (mappings.py, utils.py).                   *)
(*                                                                         *)
(* Python lists are sequences (1-based here, 0-based there); a qubit index *)
(* keeps its Python value.  An attribute that may hold None is a sequence  *)
(* of length 0 (None) or 1 (the value).                                    *)
(***************************************************************************)
EXTENDS Integers, Sequences, FiniteSets, TLC

VARIABLES
    arch,       \* the architecture object of the last constructor call
    rnd,        \* the RandomInitialLayout object
    rng,        \* state of the module-level generator of `random`
    rndRet,     \* what the calls on rnd returned
    tket,       \* the TketPlacementLayout object
    tketRet,    \* what get_virtual_layout on tket returned
    lay,        \* the BestLayout / WorstLayout object
    files,      \* the files of layout_bins/, by name
    job,        \* the parallel phase of a get_virtual_layout call in progress
    ret,        \* record of the last completed get_virtual_layout call on lay
    layCalls,   \* number of get_virtual_layout calls completed on lay (capped)
    prov,       \* where lay.best_layout / lay.worst_layout were derived from
    persisted,  \* per file: the bounds of the search that wrote its table
    routerCalls, \* number of router invocations so far
    damages,    \* number of times the environment touched a cache file
    computedOn  \* per file: the coupling map its table was computed on

vars == <<arch, rnd, rng, rndRet, tket, tketRet,
          lay, files, job, ret, layCalls, prov, persisted, routerCalls, damages,
          computedOn>>
archVars == <<arch>>
randomVars == <<rnd, rng, rndRet>>
tketVars == <<tket, tketRet>>
searchVars == <<lay, files, job, ret, layCalls, prov, persisted, routerCalls, damages,
          computedOn>>
nonArchVars == <<randomVars, tketVars, searchVars>>
nonRandomVars == <<archVars, tketVars, searchVars>>
nonTketVars == <<archVars, randomVars, searchVars>>
nonSearchVars == <<archVars, randomVars, tketVars>>

None == <<>>
Some(x) == <<x>>
Get(o) == o[1]

(***************************************************************************)
(* Bounds of the model.                                                    *)
(***************************************************************************)
MaxLineSize == 6
MaxGridSize == 10
MaxGridDim == 3
MaxRingDim == 2
MaxQubits == 3
MaxSeed == 1
RngPeriod == 8
MaxSwap == 1
MaxRouterCalls == 6
MaxDamages == 1

(***************************************************************************)
(* List helpers.                                                           *)
(***************************************************************************)
RECURSIVE Flatten(_)
Flatten(ss) == IF ss = <<>> THEN <<>> ELSE Head(ss) \o Flatten(Tail(ss))

\* [[b, a] for a, b in edges]
Reversed(edges) == [i \in 1..Len(edges) |-> <<edges[i][2], edges[i][1]>>]

\* list.remove(e): drops the first occurrence of e
ListRemove(list, e) ==
    LET hits == {i \in 1..Len(list) : list[i] = e}
        first == CHOOSE i \in hits : \A j \in hits : i <= j
    IN  [i \in 1..(Len(list) - 1) |-> IF i < first THEN list[i] ELSE list[i + 1]]

\* list(range(begin, end, step)) for step > 0
RangeList(begin, end, step) ==
    LET cnt == IF end > begin THEN (end - begin + step - 1) \div step ELSE 0
    IN  [i \in 1..cnt |-> begin + (i - 1) * step]

\* edges of nx.path_graph(n) relabelled by x -> x + offset, in nx's order
PathGraphEdges(n, offset) ==
    [i \in 1..(IF n > 1 THEN n - 1 ELSE 0) |-> <<offset + i - 1, offset + i>>]

(***************************************************************************)
(* Architecture objects.                                                   *)
(***************************************************************************)
BlankArch(cls, args) ==
    [cls |-> cls, args |-> args, system_size |-> None, name |-> None,
     m |-> None, n |-> None, coupling_map |-> None,
     topology_calls |-> 0, outcome |-> "constructing"]

NoArch == BlankArch("None", <<>>)

\* ---- LineArchitecture.get_topology
LineGetTopology(self) == PathGraphEdges(Get(self.system_size), 0)

\* ---- Grid.get_topology
\* a grid with the cells numbered column by column, for comparison
GridNodeEdgesColumnMajor(u, m, n) ==
    LET i == u % m
        j == u \div m
    IN  (IF i < m - 1 THEN << <<u, u + 1>> >> ELSE <<>>)
        \o (IF j < n - 1 THEN << <<u, u + m>> >> ELSE <<>>)

\* nx.grid_2d_graph(m, n) relabelled to integers: node (i, j) is i*n + j and
\* the edge view lists, per node in that order, its link to the node below
\* and then its link to the node on the right.
GridNodeEdges(u, m, n) ==
    LET i == u \div n
        j == u % n
    IN  (IF i < m - 1 THEN << <<u, u + n>> >> ELSE <<>>)
        \o (IF j < n - 1 THEN << <<u, u + 1>> >> ELSE <<>>)

GridGetTopology(self) ==
    LET graph == Flatten([k \in 1..(Get(self.m) * Get(self.n)) |->
                             GridNodeEdges(k - 1, Get(self.m), Get(self.n))])
        to_add == Reversed(graph)
    IN  graph \o to_add

\* ---- HeavyHexArchitecture
AvailableSystemSizes == {5, 7, 16, 27, 65, 127, 433}

CreateConnectivityChain(begin, end) ==
    Flatten([k \in 1..(end - begin) |->
               << <<begin + k - 1, begin + k>>, <<begin + k, begin + k - 1>> >>])

CreateVerticalChain(indices) ==
    Flatten([k \in 1..(Len(indices) - 1) |->
               << <<indices[k], indices[k + 1]>>, <<indices[k + 1], indices[k]>> >>])

StartingSets == << <<0, 10, 13>>, <<15, 24, 29>>, <<27, 38, 41>>, <<43, 52, 56>> >>

GetHummingbirdTopology ==
    CreateConnectivityChain(0, 9)
    \o CreateConnectivityChain(13, 23)
    \o CreateConnectivityChain(27, 37)
    \o CreateConnectivityChain(41, 51)
    \o CreateConnectivityChain(55, 64)
    \o Flatten([t \in 1..Len(StartingSets) |->
            LET s == StartingSets[t]
            IN  CreateVerticalChain(s)
                \o CreateVerticalChain(<<s[1] + 4, s[2] + 1, s[3] + 4>>)
                \o CreateVerticalChain(<<s[1] + 8, s[2] + 2, s[3] + 8>>)])

OspreySize == 433
OspreyRows == 12
OspreyPathLen == 27
OspreyBridgesPerRow == 7

\* intermediate_nodes = list(range(433 - no_rows * 7, 433))
IntermediateNodes ==
    RangeList(OspreySize - OspreyRows * OspreyBridgesPerRow, OspreySize, 1)

\* the two path node lists of loop round k, as offsets
OspreyPrevOffset(k) == k * OspreyPathLen
OspreyCurrOffset(k) == (k + 1) * OspreyPathLen

OspreyConnectionRange(k) ==
    IF k % 2 = 0 THEN RangeList(0, 25, 4) ELSE RangeList(2, 27, 4)

\* what round k of the loop appends to coupling_list
OspreyRound(k) ==
    LET conn == OspreyConnectionRange(k)
        cur == OspreyCurrOffset(k)
        prev == OspreyPrevOffset(k)
    IN  (IF k = 0 THEN PathGraphEdges(OspreyPathLen, 0) ELSE <<>>)
        \o PathGraphEdges(OspreyPathLen, cur)
        \o Flatten([t \in 1..Len(conn) |->
              LET node == IntermediateNodes[k * Len(conn) + t]
                  mm == conn[t]
              IN  << <<cur + mm, node>>, <<node, cur + mm>>,
                     <<prev + mm, node>>, <<node, prev + mm>> >>])

GetOspreyTopology ==
    LET built == Flatten([r \in 1..OspreyRows |-> OspreyRound(r - 1)])
        cut1 == ListRemove(built, <<25, 26>>)
        cut2 == ListRemove(cut1, <<OspreyRows * OspreyPathLen,
                                   OspreyRows * OspreyPathLen + 1>>)
    IN  cut2 \o Reversed(cut2)

\* Sizes 5, 7, 16, 27 and 127 read a vendor table that is no part of the
\* repository; the model draws no such size as input.
HeavyHexGetTopology(self) ==
    CASE Get(self.system_size) = 65 -> GetHummingbirdTopology
      [] Get(self.system_size) = 433 -> GetOspreyTopology

\* ---- RigettiArchitecture
RingSize == 8

RingEdges(k) ==
    Flatten([t \in 1..RingSize |->
        LET idx == k * RingSize + (t - 1)
        IN  IF t - 1 = 7
            THEN << <<idx, idx - 7>>, <<idx - 7, idx>> >>
            ELSE << <<idx, idx + 1>>, <<idx + 1, idx>> >>])

CreateRowRings(self, row_idx) ==
    LET row_ring == Flatten([t \in 1..Get(self.n) |->
            LET k == t - 1
            IN  RingEdges(k)
                \o (IF k # 0
                    THEN << <<(k - 1) * 8 + 2, k * 8 + 7>>, <<k * 8 + 7, (k - 1) * 8 + 2>>,
                            <<(k - 1) * 8 + 3, k * 8 + 6>>, <<k * 8 + 6, (k - 1) * 8 + 3>> >>
                    ELSE <<>>)])
        off == row_idx * Get(self.n) * 8
    IN  [i \in 1..Len(row_ring) |-> <<off + row_ring[i][1], off + row_ring[i][2]>>]

RigettiNoRowLinks(self, row_idx) == <<>>

RigettiRowLinks(self, row_idx) ==
    Flatten([t \in 1..Get(self.n) |->
        LET ring_idx == t - 1
            prev_node == (ring_idx + row_idx * Get(self.n)) * 8
            curr_node == (ring_idx + (row_idx - 1) * Get(self.n)) * 8
        IN  << <<prev_node + 5, curr_node>>, <<curr_node, prev_node + 5>>,
               <<prev_node + 4, curr_node + 1>>, <<curr_node + 1, prev_node + 4>> >>])

RigettiGetTopology(self) ==
    Flatten([r \in 1..Get(self.m) |->
        CreateRowRings(self, r - 1)
        \o (IF r - 1 # 0 THEN RigettiRowLinks(self, r - 1) ELSE <<>>)])

\* ---- dispatch of the abstract get_topology
GetTopology(self) ==
    CASE self.cls \in {"Grid", "SquareGrid"} -> GridGetTopology(self)
      [] self.cls = "LineArchitecture" -> LineGetTopology(self)
      [] self.cls = "HeavyHexArchitecture" -> HeavyHexGetTopology(self)
      [] self.cls = "RigettiArchitecture" -> RigettiGetTopology(self)

\* ---- Architecture.__init__
ArchitectureInit(self, system_size, name) ==
    LET s1 == [self EXCEPT !.system_size = Some(system_size), !.name = Some(name)]
    IN  [s1 EXCEPT !.coupling_map = Some(GetTopology(s1)),
                   !.topology_calls = @ + 1,
                   !.outcome = "ok"]

\* Grid.__init__ without its size assertion
GridInitNoAssert(self, system_size, m, n) ==
    ArchitectureInit([self EXCEPT !.m = Some(m), !.n = Some(n)], system_size, "grid")

\* ---- Grid.__init__
GridInit(self, system_size, m, n) ==
    IF system_size # m * n
    THEN [self EXCEPT !.outcome = "AssertionError"]
    ELSE ArchitectureInit([self EXCEPT !.m = Some(m), !.n = Some(n)], system_size, "grid")

\* np.sqrt(system_size).is_integer(), and int(np.sqrt(system_size))
IsPerfectSquare(s) == \E k \in 0..s : k * k = s
IntSqrt(s) == CHOOSE k \in 0..s : k * k <= s /\ (k + 1) * (k + 1) > s

\* ---- SquareGrid.__init__
SquareGridInit(self, system_size) ==
    IF ~IsPerfectSquare(system_size)
    THEN [self EXCEPT !.outcome = "SystemExit"]
    ELSE GridInit(self, system_size, IntSqrt(system_size), IntSqrt(system_size))

\* ---- LineArchitecture.__init__
LineArchitectureInit(self, system_size) ==
    ArchitectureInit(self, system_size, "line")

\* ---- HeavyHexArchitecture.__init__
HeavyHexArchitectureInit(self, system_size) ==
    IF system_size \notin AvailableSystemSizes
    THEN [self EXCEPT !.outcome = "SystemExit"]
    ELSE ArchitectureInit(self, system_size, "heavyhex")

\* ---- RigettiArchitecture.__init__
RigettiArchitectureInit(self, system_size, m, n) ==
    LET s1 == [self EXCEPT !.m = Some(m), !.n = Some(n)]
    IN  IF system_size # m * n * 8
        THEN [s1 EXCEPT !.outcome = "AssertionError"]
        ELSE ArchitectureInit(s1, system_size, "rigetti_rings")

(***************************************************************************)
(* Inputs of the architecture constructors.                                *)
(***************************************************************************)
LineSizes == 0..MaxLineSize
GridSizes == 0..MaxGridSize
GridDims == 0..MaxGridDim
HeavyHexSizes == {0, 6, 64, 65, 66, 432, 433, 434}
RingDims == 0..MaxRingDim
RigettiSizes == {8 * k : k \in 0..(MaxRingDim * MaxRingDim)} \cup {4, 9, 12}

ConstructLine(system_size) ==
    /\ arch' = LineArchitectureInit(
                   BlankArch("LineArchitecture", <<system_size>>), system_size)
    /\ UNCHANGED nonArchVars

ConstructGrid(system_size, m, n) ==
    /\ arch' = GridInit(BlankArch("Grid", <<system_size, m, n>>), system_size, m, n)
    /\ UNCHANGED nonArchVars

ConstructSquareGrid(system_size) ==
    /\ arch' = SquareGridInit(BlankArch("SquareGrid", <<system_size>>), system_size)
    /\ UNCHANGED nonArchVars

ConstructHeavyHex(system_size) ==
    /\ arch' = HeavyHexArchitectureInit(
                   BlankArch("HeavyHexArchitecture", <<system_size>>), system_size)
    /\ UNCHANGED nonArchVars

ConstructRigetti(system_size, m, n) ==
    /\ arch' = RigettiArchitectureInit(
                   BlankArch("RigettiArchitecture", <<system_size, m, n>>),
                   system_size, m, n)
    /\ UNCHANGED nonArchVars

(***************************************************************************)
(* itertools.permutations(sorted(S), k): the k-arrangements of S in         *)
(* lexicographic order.                                                    *)
(***************************************************************************)
RECURSIVE SortedSeq(_)
SortedSeq(S) ==
    IF S = {} THEN <<>>
    ELSE LET lo == CHOOSE x \in S : \A y \in S : x <= y
         IN  <<lo>> \o SortedSeq(S \ {lo})

RECURSIVE PermsOf(_, _)
PermsOf(S, k) ==
    IF k = 0 THEN << <<>> >>
    ELSE LET order == SortedSeq(S)
         IN  Flatten([i \in 1..Len(order) |->
                 LET rest == PermsOf(S \ {order[i]}, k - 1)
                 IN  [j \in 1..Len(rest) |-> <<order[i]>> \o rest[j]]])

\* range(n) as a set
RangeSet(n) == 0..(n - 1)

(***************************************************************************)
(* InitialLayout.__init__: both counts are stored, then the capacity       *)
(* assertion runs, then name and the two cached views are set.             *)
(***************************************************************************)
InitialLayoutInitNoAssert(self, no_virt_qubits, no_phys_qubits, name) ==
    [self EXCEPT !.no_virt_qubits = Some(no_virt_qubits),
                 !.no_phys_qubits = Some(no_phys_qubits),
                 !.name = Some(name),
                 !.virtual_layout = None,
                 !.physical_layout = None,
                 !.outcome = "ok"]

InitialLayoutInit(self, no_virt_qubits, no_phys_qubits, name) ==
    LET s1 == [self EXCEPT !.no_virt_qubits = Some(no_virt_qubits),
                           !.no_phys_qubits = Some(no_phys_qubits)]
    IN  IF ~(no_phys_qubits >= no_virt_qubits)
        THEN [s1 EXCEPT !.outcome = "AssertionError"]
        ELSE [s1 EXCEPT !.name = Some(name),
                        !.virtual_layout = None,
                        !.physical_layout = None,
                        !.outcome = "ok"]

(***************************************************************************)
(* The module-level generator of `random`.  It is a deterministic          *)
(* automaton: seeding fixes its state, a draw is a function of the state   *)
(* and moves it on.  The Mersenne Twister is not reproduced: the stand-in  *)
(* has period RngPeriod, and two successive draws may agree (states 2j,    *)
(* 2j+1) or differ.  An unseeded process starts in any state (OS entropy). *)
(***************************************************************************)
RngStates == 0..(RngPeriod - 1)
RandomSeed(s) == s % RngPeriod
RngAdvance(g) == (g + 1) % RngPeriod

\* k draws with replacement (random.choices), for comparison
RandomChoices(g, n, k) == [i \in 1..k |-> (g * i) % n]

\* random.sample(range(n), k) drawn in state g
RandomSample(g, n, k) ==
    LET all == PermsOf(RangeSet(n), k)
    IN  all[((g \div 2) % Len(all)) + 1]

(***************************************************************************)
(* RandomInitialLayout.                                                    *)
(***************************************************************************)
BlankRandom(args) ==
    [args |-> args, seed |-> None, v2p |-> None, p2v |-> None,
     no_virt_qubits |-> None, no_phys_qubits |-> None, name |-> None,
     virtual_layout |-> None, physical_layout |-> None,
     outcome |-> "constructing"]

NoRandom == [BlankRandom(<<>>) EXCEPT !.outcome = "absent"]

RandomInitialLayoutInit(self, no_virt_qubits, no_phys_qubits, seed) ==
    InitialLayoutInit([self EXCEPT !.seed = seed, !.v2p = None, !.p2v = None],
                      no_virt_qubits, no_phys_qubits, "random")

\* _set_p2v_from_v2p: p2v as the list of its values for keys 0..no_phys_qubits-1;
\* a later key_v overwrites an earlier one that maps to the same physical qubit.
SetP2VFromV2P(self) ==
    LET v2p == Get(self.v2p)
    IN  [i \in 1..Get(self.no_phys_qubits) |->
            LET keys == {v \in 1..Len(v2p) : v2p[v] = i - 1}
            IN  IF keys = {} THEN None
                ELSE Some((CHOOSE v \in keys : \A w \in keys : w <= v) - 1)]

\* get_virtual_layout on object self with the generator in state g:
\* the object, the generator and the returned list afterwards.
\* The list is returned without being stored in self.virtual_layout.
RandomGetVirtualLayout(self, g) ==
    IF self.virtual_layout # None
    THEN [self |-> self, rng |-> g, result |-> Get(self.virtual_layout)]
    ELSE LET g1 == IF self.seed # None THEN RandomSeed(Get(self.seed)) ELSE g
             virtual_layout == RandomSample(g1, Get(self.no_phys_qubits),
                                            Get(self.no_virt_qubits))
             s1 == [self EXCEPT !.v2p = Some(virtual_layout)]
             s2 == [s1 EXCEPT !.p2v = Some(SetP2VFromV2P(s1))]
         IN  [self |-> s2, rng |-> RngAdvance(g1), result |-> virtual_layout]

\* get_physical_layout: list[sorted(self.p2v).values()] raises, sorted(None)
\* with TypeError and <list>.values with AttributeError.
RandomGetPhysicalLayout(self) ==
    IF self.physical_layout # None
    THEN [outcome |-> "ok", value |-> Get(self.physical_layout)]
    ELSE IF self.p2v = None
         THEN [outcome |-> "TypeError", value |-> <<>>]
         ELSE [outcome |-> "AttributeError", value |-> <<>>]

NoRandomRet == [calls |-> 0, virt |-> None, prev |-> None, phys |-> None]

Seeds == {None} \cup {Some(s) : s \in 0..MaxSeed}
QubitCounts == 0..MaxQubits

ConstructRandom(no_virt_qubits, no_phys_qubits, seed) ==
    /\ rnd' = RandomInitialLayoutInit(
                  BlankRandom(<<no_virt_qubits, no_phys_qubits, seed>>),
                  no_virt_qubits, no_phys_qubits, seed)
    /\ rndRet' = NoRandomRet
    /\ UNCHANGED <<rng, nonRandomVars>>

CallRandomGetVirtualLayout ==
    /\ rnd.outcome = "ok"
    /\ LET r == RandomGetVirtualLayout(rnd, rng)
       IN  /\ rnd' = r.self
           /\ rng' = r.rng
           /\ rndRet' = [calls |-> IF rndRet.calls < 2 THEN rndRet.calls + 1 ELSE 2,
                         virt |-> Some(r.result),
                         prev |-> rndRet.virt,
                         phys |-> None]
    /\ UNCHANGED nonRandomVars

CallRandomGetPhysicalLayout ==
    /\ rnd.outcome = "ok"
    /\ rndRet' = [rndRet EXCEPT !.phys = Some(RandomGetPhysicalLayout(rnd))]
    /\ UNCHANGED <<rnd, rng, nonRandomVars>>

(***************************************************************************)
(* TketPlacementLayout.  The circuit, the backend and the pytket objects   *)
(* built from them are external handles and carry no state here.           *)
(***************************************************************************)
BlankTket(args) ==
    [args |-> args, v2p |-> None, p2v |-> None, method |-> None,
     no_virt_qubits |-> None, no_phys_qubits |-> None, name |-> None,
     virtual_layout |-> None, physical_layout |-> None,
     outcome |-> "constructing"]

NoTket == [BlankTket(<<>>) EXCEPT !.outcome = "absent"]

TketPlacementLayoutInit(self, no_virt_qubits, no_phys_qubits, method) ==
    LET s1 == InitialLayoutInit(self, no_virt_qubits, no_phys_qubits, method)
    IN  IF s1.outcome # "ok" THEN s1
        ELSE [s1 EXCEPT !.v2p = None, !.p2v = None, !.method = Some(method)]

\* get_virtual_layout, `placed` being what the external placement passes
\* leave in cu.final_map: the object afterwards and what the caller gets.
TketGetVirtualLayout(self, placed) ==
    IF self.virtual_layout # None
    THEN [self |-> self, outcome |-> "ok", value |-> Get(self.virtual_layout)]
    ELSE IF Get(self.method) \notin {"LinePlacement", "GraphPlacement"}
         THEN [self |-> self, outcome |-> "SystemExit", value |-> <<>>]
         ELSE [self |-> [self EXCEPT !.virtual_layout = Some(placed)],
               outcome |-> "ok", value |-> placed]

TketMethods == {"LinePlacement", "GraphPlacement", "BoxPlacement"}

\* LinePlacementLayout and GraphPlacementLayout are the two fixed-method
\* subclasses; the base class takes any method string.
ConstructTket(no_virt_qubits, no_phys_qubits, method) ==
    /\ tket' = TketPlacementLayoutInit(
                   BlankTket(<<no_virt_qubits, no_phys_qubits, method>>),
                   no_virt_qubits, no_phys_qubits, method)
    /\ tketRet' = None
    /\ UNCHANGED nonTketVars

CallTketGetVirtualLayout ==
    /\ tket.outcome = "ok"
    /\ \E i \in 1..Len(PermsOf(RangeSet(Get(tket.no_phys_qubits)),
                                Get(tket.no_virt_qubits))) :
          LET placed == PermsOf(RangeSet(Get(tket.no_phys_qubits)),
                                Get(tket.no_virt_qubits))[i]
              r == TketGetVirtualLayout(tket, placed)
          IN  /\ tket' = r.self
              /\ tketRet' = Some([outcome |-> r.outcome, value |-> r.value])
    /\ UNCHANGED nonTketVars

(***************************************************************************)
(* Exhaustive layout search: LayoutByExhaustiveSearch, BestLayout,         *)
(* WorstLayout (mappings.py) with get_results_dict and find_layout_bounds  *)
(* (utils.py).  A circuit is its name; a result table (a dict) is the list *)
(* of its <<permutation, swap count>> items in insertion order.            *)
(***************************************************************************)
BlankSearch(cls, args) ==
    [cls |-> cls, args |-> args, no_virt_qubits |-> None, no_phys_qubits |-> None,
     name |-> None, virtual_layout |-> None, physical_layout |-> None,
     v2p |-> None, p2v |-> None, qc |-> None, backend |-> None, coupling |-> None,
     result_dict |-> None, worst_layout |-> None, best_layout |-> None,
     seed |-> None, outcome |-> "constructing"]

NoSearch == [BlankSearch("None", <<>>) EXCEPT !.outcome = "absent"]

LayoutByExhaustiveSearchInit(self, no_virt_qubits, no_phys_qubits, backend, qc, method) ==
    LET s1 == InitialLayoutInit(self, no_virt_qubits, no_phys_qubits, method)
    IN  IF s1.outcome # "ok" THEN s1
        ELSE [s1 EXCEPT !.v2p = None, !.p2v = None,
                        !.qc = Some(qc), !.backend = Some(backend),
                        !.coupling = backend.coupling_map,
                        !.result_dict = None, !.worst_layout = None,
                        !.best_layout = None, !.seed = None]

BestLayoutInit(self, no_virt_qubits, no_phys_qubits, backend, qc) ==
    LayoutByExhaustiveSearchInit(self, no_virt_qubits, no_phys_qubits, backend, qc,
                                 "BestLayout")

WorstLayoutInit(self, no_virt_qubits, no_phys_qubits, backend, qc) ==
    LET s1 == LayoutByExhaustiveSearchInit(self, no_virt_qubits, no_phys_qubits,
                                           backend, qc, "WorstLayout")
    IN  IF s1.outcome # "ok" THEN s1
        ELSE [s1 EXCEPT !.backend = Some(backend), !.qc = Some(qc)]

\* str(self.seed)
StrSeed(seed) == IF seed = None THEN "None" ELSE ToString(Get(seed))

\* "_" + str(self.seed) + "_" + self.backend.name, as its two variable parts
ArcName(self) == <<StrSeed(self.seed), Get(Get(self.backend).name)>>

\* "layout_bins/{}_{}_{}_{}.pickle".format("ExhaustiveSearch", no_phys_qubits,
\* qc_name, arc_name), as the tuple of the four formatted values
FileName(self, qc_name, arc_name) ==
    <<"ExhaustiveSearch", Get(self.no_phys_qubits), qc_name, arc_name>>

Missing == [kind |-> "missing"]
\* a file open(filename, 'rb') is refused on; open(filename, 'wb') may be
\* refused on it as well (no access at all, or the path is a directory)
Unreadable(writable) == [kind |-> "unreadable", writable |-> writable]
Corrupt == [kind |-> "corrupt"]
Pickled(result_dict) == [kind |-> "table", table |-> result_dict]

\* load_from_pickle with the bare except always returning None
LoadFromPickleNothing(self, fs, qc_name, arc_name) == None

\* load_from_pickle: the unpickled table, or None when open() or
\* pickle.load() raises (no file, no read access, no valid pickle)
LoadFromPickle(self, fs, qc_name, arc_name) ==
    LET filename == FileName(self, qc_name, arc_name)
    IN  IF fs[filename].kind = "table" THEN Some(fs[filename].table) ELSE None

\* save: the directory afterwards and the exception open(filename, 'wb')
\* raises, if any.  layout_bins/ itself is taken to exist.
Save(self, fs, result_dict, qc_name, arc_name) ==
    LET filename == FileName(self, qc_name, arc_name)
    IN  IF fs[filename].kind = "unreadable" /\ ~fs[filename].writable
        THEN [fs |-> fs, raised |-> "PermissionError"]
        ELSE [fs |-> [fs EXCEPT ![filename] = Pickled(result_dict)],
              raised |-> "None"]

\* a table that lacks the entry of the last input, for comparison
ResultDictPartial(perms, outputs) ==
    [i \in 1..(Len(perms) - 1) |-> <<perms[i], Get(outputs[i])>>]

\* utils.get_results_dict's dict(zip([inp[0] for inp in inputs], outputs));
\* joblib hands back outputs in the order of the inputs
ResultDict(perms, outputs) == [i \in 1..Len(perms) |-> <<perms[i], Get(outputs[i])>>]

NoBounds == [min |-> None, max |-> None, best_perm |-> None, worst_perm |-> None]

\* the loop of find_layout_bounds from item i on; min = inf and max = -inf
\* are None
RECURSIVE FindLayoutBoundsLoop(_, _, _)
FindLayoutBoundsLoop(result_dict, i, acc) ==
    IF i > Len(result_dict) THEN acc
    ELSE LET p == result_dict[i][1]
             c == result_dict[i][2]
             a1 == IF acc.min = None \/ c < Get(acc.min)
                   THEN [acc EXCEPT !.min = Some(c), !.best_perm = Some(p)]
                   ELSE acc
             a2 == IF a1.max = None \/ c > Get(a1.max)
                   THEN [a1 EXCEPT !.max = Some(c), !.worst_perm = Some(p)]
                   ELSE a1
         IN  FindLayoutBoundsLoop(result_dict, i + 1, a2)

\* find_layout_bounds with <= and >=: the last of the tied items wins
RECURSIVE FindLayoutBoundsLastLoop(_, _, _)
FindLayoutBoundsLastLoop(result_dict, i, acc) ==
    IF i > Len(result_dict) THEN acc
    ELSE LET p == result_dict[i][1]
             c == result_dict[i][2]
             a1 == IF acc.min = None \/ c <= Get(acc.min)
                   THEN [acc EXCEPT !.min = Some(c), !.best_perm = Some(p)]
                   ELSE acc
             a2 == IF a1.max = None \/ c >= Get(a1.max)
                   THEN [a1 EXCEPT !.max = Some(c), !.worst_perm = Some(p)]
                   ELSE a1
         IN  FindLayoutBoundsLastLoop(result_dict, i + 1, a2)

FindLayoutBoundsLast(result_dict) ==
    LET r == FindLayoutBoundsLastLoop(result_dict, 1, NoBounds)
    IN  <<r.best_perm, r.worst_perm>>

\* utils.find_layout_bounds: (best_perm, worst_perm)
FindLayoutBounds(result_dict) ==
    LET r == FindLayoutBoundsLoop(result_dict, 1, NoBounds)
    IN  <<r.best_perm, r.worst_perm>>

\* what BestLayout / WorstLayout.get_virtual_layout hands to its caller
Returned(self) ==
    IF self.cls = "BestLayout" THEN self.best_layout ELSE self.worst_layout

\* Parallel(n_jobs=8)
NJobs == 8

Idle == [active |-> FALSE, perms |-> <<>>, outputs |-> <<>>,
         file_before |-> Missing, fresh |-> FALSE, routed_before |-> 0]

(***************************************************************************)
(* Inputs of the search.                                                   *)
(***************************************************************************)
Backends ==
    {LineArchitectureInit(BlankArch("LineArchitecture", <<n>>), n) : n \in 2..3}
CircuitNames == {"vqe"}
SearchSeeds == {None, Some(0)}
SearchClasses == {"BestLayout", "WorstLayout"}
FileNames ==
    {<<"ExhaustiveSearch", Get(b.system_size), q, <<StrSeed(sd), Get(b.name)>> >> :
        b \in Backends, q \in CircuitNames, sd \in SearchSeeds}

\* the backends and the files of the runs in which the environment acts
CacheBackends == {b \in Backends : Get(b.system_size) = 2}
CacheFileNames == {f \in FileNames : f[2] = 2}

\* the swap count recorded for permutation p in a table
CountOf(table, p) ==
    LET i == CHOOSE j \in 1..Len(table) : table[j][1] = p
    IN  table[i][2]

\* the record kept of a completed call
CallRecord(self, source, raised, table, file, before, after, routed, writes, fresh) ==
    [source |-> source, cls |-> self.cls, raised |-> raised,
     value |-> IF raised = "None" THEN Returned(self) ELSE None,
     best |-> self.best_layout, worst |-> self.worst_layout,
     no_phys_qubits |-> Get(self.no_phys_qubits),
     table |-> table, file |-> file, file_before |-> before, file_after |-> after,
     router_calls |-> routed, writes |-> writes, fresh |-> fresh,
     was_persisted |-> persisted[file] # None,
     persisted_bounds |-> persisted[file]]

CallDone(self, source, raised, table, file, before, after, routed, writes, fresh) ==
    Some(CallRecord(self, source, raised, table, file, before, after, routed, writes,
                    fresh))

ConstructSearch(cls, no_virt_qubits, backend, qc) ==
    /\ ~job.active
    /\ LET no_phys_qubits == Get(backend.system_size)
           blank == BlankSearch(cls, <<no_virt_qubits, no_phys_qubits,
                                       Get(backend.name), qc>>)
       IN  lay' = IF cls = "BestLayout"
                  THEN BestLayoutInit(blank, no_virt_qubits, no_phys_qubits, backend, qc)
                  ELSE WorstLayoutInit(blank, no_virt_qubits, no_phys_qubits, backend, qc)
    /\ ret' = None
    /\ layCalls' = 0
    /\ prov' = None
    /\ UNCHANGED <<files, job, persisted, routerCalls, damages, computedOn,
                   nonSearchVars>>

\* BestLayout(no_virt_qubits, no_phys_qubits, backend, qc) or WorstLayout(...)
\* called directly: no_phys_qubits is an argument of its own, next to backend
ConstructSearchOn(cls, no_virt_qubits, no_phys_qubits, backend, qc) ==
    /\ ~job.active
    /\ LET blank == BlankSearch(cls, <<no_virt_qubits, no_phys_qubits,
                                       Get(backend.name), qc>>)
       IN  lay' = IF cls = "BestLayout"
                  THEN BestLayoutInit(blank, no_virt_qubits, no_phys_qubits, backend, qc)
                  ELSE WorstLayoutInit(blank, no_virt_qubits, no_phys_qubits, backend, qc)
    /\ ret' = None
    /\ layCalls' = 0
    /\ prov' = None
    /\ UNCHANGED <<files, job, persisted, routerCalls, damages, computedOn,
                   nonSearchVars>>

\* l.seed = s (tests.py)
SetSeed(seed) ==
    /\ lay.outcome = "ok"
    /\ ~job.active
    /\ lay' = [lay EXCEPT !.seed = seed]
    /\ ret' = None
    /\ UNCHANGED <<files, job, layCalls, prov, persisted, routerCalls, damages,
                   computedOn, nonSearchVars>>

\* get_virtual_layout up to its return, or up to the dispatch of the workers
CallGetVirtualLayout ==
    /\ lay.outcome = "ok"
    /\ ~job.active
    /\ LET qc_name == Get(lay.qc)
           arc_name == ArcName(lay)
           file == FileName(lay, qc_name, arc_name)
           fresh == layCalls = 0
       IN  IF lay.best_layout # None /\ lay.worst_layout # None /\ lay.seed = None
           THEN /\ ret' = CallDone(lay, "memo", "None", None, file, files[file], files[file],
                                     0, 0, fresh)
                /\ layCalls' = 1
                /\ UNCHANGED <<lay, files, job, prov, persisted, routerCalls>>
           ELSE LET pickle_data == LoadFromPickle(lay, files, qc_name, arc_name)
                IN  IF pickle_data # None
                    THEN LET bounds == FindLayoutBounds(Get(pickle_data))
                             s1 == [lay EXCEPT !.best_layout = bounds[1],
                                               !.worst_layout = bounds[2]]
                         IN  /\ lay' = s1
                             /\ ret' = CallDone(s1, "cache", "None", pickle_data, file,
                                                  files[file], files[file], 0, 0, fresh)
                             /\ prov' = Some([table |-> Get(pickle_data), file |-> file,
                                               coupling |-> computedOn[file]])
                             /\ layCalls' = 1
                             /\ UNCHANGED <<files, job, persisted, routerCalls>>
                    ELSE LET perms == PermsOf(RangeSet(Get(lay.no_phys_qubits)),
                                              Get(lay.no_phys_qubits))
                         IN  /\ routerCalls + Len(perms) <= MaxRouterCalls
                             /\ job' = [active |-> TRUE, perms |-> perms,
                                        outputs |-> [i \in 1..Len(perms) |-> None],
                                        file_before |-> files[file], fresh |-> fresh,
                                        routed_before |-> routerCalls]
                             /\ ret' = None
                             /\ UNCHANGED <<lay, files, layCalls, prov, persisted,
                                            routerCalls>>
    /\ UNCHANGED <<damages, computedOn, nonSearchVars>>

\* one worker returns from func(inp): the router's swap count for input i.
\* The workers end in any order; at most NJobs inputs are being worked on,
\* taken in input order.
WorkerReturns(i, swap_count) ==
    /\ job.active
    /\ i \in 1..Len(job.perms)
    /\ job.outputs[i] = None
    /\ Cardinality({j \in 1..(i - 1) : job.outputs[j] = None}) < NJobs
    /\ job' = [job EXCEPT !.outputs[i] = Some(swap_count)]
    /\ routerCalls' = routerCalls + 1
    /\ UNCHANGED <<lay, files, ret, layCalls, prov, persisted, damages, computedOn,
                   nonSearchVars>>

\* all workers are back: the rest of get_results_dict and of get_virtual_layout
FinishGetVirtualLayout ==
    /\ job.active
    /\ \A i \in 1..Len(job.perms) : job.outputs[i] # None
    /\ LET qc_name == Get(lay.qc)
           arc_name == ArcName(lay)
           file == FileName(lay, qc_name, arc_name)
           result_dict == ResultDict(job.perms, job.outputs)
           bounds == FindLayoutBounds(result_dict)
           s1 == [lay EXCEPT !.result_dict = Some(result_dict),
                             !.best_layout = bounds[1],
                             !.worst_layout = bounds[2]]
           saved == Save(s1, files, result_dict, qc_name, arc_name)
           fs == saved.fs
           written == {f \in FileNames : fs[f] # files[f]}
       IN  /\ lay' = s1
           /\ files' = fs
           /\ ret' = CallDone(s1, "computed", saved.raised, Some(result_dict), file,
                                job.file_before, fs[file], routerCalls - job.routed_before,
                                Cardinality(written), job.fresh)
           /\ prov' = Some([table |-> result_dict, file |-> file,
                             coupling |-> lay.coupling])
           /\ computedOn' = [f \in FileNames |->
                                IF fs[f] # files[f] THEN lay.coupling ELSE computedOn[f]]
           /\ persisted' = [f \in FileNames |->
                               IF fs[f] = Pickled(result_dict)
                               THEN Some(<<CountOf(result_dict, Get(bounds[1])),
                                           CountOf(result_dict, Get(bounds[2]))>>)
                               ELSE persisted[f]]
    /\ job' = Idle
    /\ layCalls' = 1
    /\ UNCHANGED <<routerCalls, damages, nonSearchVars>>

\* the environment removes, garbles or locks a cache file.  A file is read
\* only as a call starts and replaced as it ends, so this is placed between
\* calls.
DamageFile(f, how) ==
    /\ ~job.active
    /\ damages < MaxDamages
    /\ damages' = damages + 1
    /\ files[f] # how
    /\ files' = [files EXCEPT ![f] = how]
    /\ persisted' = [persisted EXCEPT ![f] = None]
    /\ computedOn' = [computedOn EXCEPT ![f] = None]
    /\ ret' = None
    /\ UNCHANGED <<lay, job, layCalls, prov, routerCalls, nonSearchVars>>

(***************************************************************************)
(* Specifications, one per component.                                      *)
(***************************************************************************)
IdleArch == arch = NoArch
IdleRandom == rnd = NoRandom /\ rng = 0 /\ rndRet = NoRandomRet
IdleTket == tket = NoTket /\ tketRet = None
IdleSearch ==
    /\ lay = NoSearch
    /\ files = [f \in FileNames |-> Missing]
    /\ job = Idle
    /\ ret = None
    /\ layCalls = 0
    /\ prov = None
    /\ persisted = [f \in FileNames |-> None]
    /\ routerCalls = 0
    /\ damages = 0
    /\ computedOn = [f \in FileNames |-> None]

InitArch == IdleArch /\ IdleRandom /\ IdleTket /\ IdleSearch

NextArch ==
    \/ \E s \in LineSizes : ConstructLine(s)
    \/ \E s \in GridSizes, m \in GridDims, n \in GridDims : ConstructGrid(s, m, n)
    \/ \E s \in GridSizes : ConstructSquareGrid(s)
    \/ \E s \in HeavyHexSizes : ConstructHeavyHex(s)
    \/ \E s \in RigettiSizes, m \in RingDims, n \in RingDims : ConstructRigetti(s, m, n)

SpecArch == InitArch /\ [][NextArch]_vars

InitRandom ==
    /\ IdleArch /\ IdleTket /\ IdleSearch
    /\ rnd = NoRandom
    /\ rng \in RngStates
    /\ rndRet = NoRandomRet

NextRandom ==
    \/ \E v \in QubitCounts, p \in QubitCounts, s \in Seeds : ConstructRandom(v, p, s)
    \/ CallRandomGetVirtualLayout
    \/ CallRandomGetPhysicalLayout

SpecRandom == InitRandom /\ [][NextRandom]_vars

InitTket == IdleArch /\ IdleRandom /\ IdleTket /\ IdleSearch

NextTket ==
    \/ \E v \in QubitCounts, p \in QubitCounts, m \in TketMethods : ConstructTket(v, p, m)
    \/ CallTketGetVirtualLayout

SpecTket == InitTket /\ [][NextTket]_vars

Init == IdleArch /\ IdleRandom /\ IdleTket /\ IdleSearch

Next ==
    \/ \E c \in SearchClasses, b \in Backends, q \in CircuitNames :
          \E v \in {Get(b.system_size), Get(b.system_size) + 1} :
             ConstructSearch(c, v, b, q)
    \/ \E sd \in SearchSeeds : SetSeed(sd)
    \/ CallGetVirtualLayout
    \/ \E i \in 1..Len(job.perms), c \in 0..MaxSwap : WorkerReturns(i, c)
    \/ FinishGetVirtualLayout

Spec == Init /\ [][Next]_vars

\* the search next to an environment that touches the cache files it reads
InitCache == IdleArch /\ IdleRandom /\ IdleTket /\ IdleSearch

NextCache ==
    \/ \E c \in SearchClasses, b \in CacheBackends, q \in CircuitNames :
          ConstructSearch(c, Get(b.system_size), b, q)
    \/ \E sd \in SearchSeeds : SetSeed(sd)
    \/ CallGetVirtualLayout
    \/ \E i \in 1..Len(job.perms), c \in 0..MaxSwap : WorkerReturns(i, c)
    \/ FinishGetVirtualLayout
    \/ \E f \in CacheFileNames :
          \E how \in {Missing, Corrupt, Unreadable(TRUE), Unreadable(FALSE)} :
             DamageFile(f, how)

SpecCache == InitCache /\ [][NextCache]_vars

\* searches of layouts constructed directly, on backends that share their name
InitKey == IdleArch /\ IdleRandom /\ IdleTket /\ IdleSearch

NextKey ==
    \/ \E c \in SearchClasses, b \in Backends, q \in CircuitNames :
          \E n \in 2..Get(b.system_size) :
             ConstructSearchOn(c, n, n, b, q)
    \/ CallGetVirtualLayout
    \/ \E i \in 1..Len(job.perms), c \in 0..MaxSwap : WorkerReturns(i, c)
    \/ FinishGetVirtualLayout

SpecKey == InitKey /\ [][NextKey]_vars
(***************************************************************************)
(* Properties of the topology generator.                                   *)
(***************************************************************************)
EdgeSet(cm) == {cm[i] : i \in 1..Len(cm)}
NodeSet(cm) == {cm[i][1] : i \in 1..Len(cm)} \cup {cm[i][2] : i \in 1..Len(cm)}
IsSymmetric(cm) == \A e \in EdgeSet(cm) : <<e[2], e[1]>> \in EdgeSet(cm)
NoSelfLoop(cm) == \A e \in EdgeSet(cm) : e[1] # e[2]
InRange(cm, size) == NodeSet(cm) \subseteq 0..(size - 1)
NoDuplicateEdge(cm) == Cardinality(EdgeSet(cm)) = Len(cm)
Constructed == arch.outcome = "ok"

\* C1: every successfully constructed architecture (Line, Grid, SquareGrid,
\* HeavyHex 65/433, Rigetti) has a coupling_map that is symmetric, has no
\* self-loop and references only indices in [0, system_size).
C1_CouplingMapWellFormed ==
    Constructed =>
        /\ IsSymmetric(Get(arch.coupling_map))
        /\ NoSelfLoop(Get(arch.coupling_map))
        /\ InRange(Get(arch.coupling_map), Get(arch.system_size))

\* C2: LineArchitecture(n) emits (i, i+1) for 0 <= i < n-1 in both
\* directions, 2*(n-1) directed entries; Line(5) has 8, the path 0-1-2-3-4.
C2_LineBothDirections ==
    (Constructed /\ arch.cls = "LineArchitecture" /\ Get(arch.system_size) >= 1) =>
        LET n == Get(arch.system_size)
            cm == Get(arch.coupling_map)
        IN  /\ Len(cm) = 2 * (n - 1)
            /\ EdgeSet(cm) = {<<i, i + 1>> : i \in 0..(n - 2)}
                             \cup {<<i + 1, i>> : i \in 0..(n - 2)}

\* the size/shape combinations the constructors must refuse
InvalidShape(a) ==
    CASE a.cls = "SquareGrid" -> \A k \in 0..a.args[1] : k * k # a.args[1]
      [] a.cls = "Grid" -> a.args[1] # a.args[2] * a.args[3]
      [] a.cls = "RigettiArchitecture" -> a.args[1] # a.args[2] * a.args[3] * 8
      [] a.cls = "HeavyHexArchitecture" -> a.args[1] \notin {5, 7, 16, 27, 65, 127, 433}
      [] OTHER -> FALSE

\* C6: an invalid size/shape combination (SquareGrid of a non-square size,
\* Grid with size # m*n, Rigetti with size # m*n*8, HeavyHex of an unlisted
\* size) ends construction in an error, with get_topology never invoked and
\* no coupling_map assigned.
C6_InvalidShapeAborts ==
    InvalidShape(arch) =>
        /\ arch.outcome \in {"SystemExit", "AssertionError"}
        /\ arch.topology_calls = 0
        /\ arch.coupling_map = None

\* SquareGrid(10) was attempted and ended in the configuration error
C6_SquareGrid10Refused ==
    /\ arch.cls = "SquareGrid"
    /\ arch.args = <<10>>
    /\ arch.outcome = "SystemExit"
    /\ arch.coupling_map = None

\* the index sets of the osprey generator: the 13 paths and the bridge qubits
OspreyPathNodes == 0..((OspreyRows + 1) * OspreyPathLen - 1)
OspreyBridgeNodes == {IntermediateNodes[i] : i \in 1..Len(IntermediateNodes)}

\* C7: the hummingbird (65) and osprey (433) generators return an edge list
\* that is symmetric, lists no directed edge twice, uses no index for two
\* qubits (osprey: bridge indices disjoint from path indices) and leaves no
\* index of [0, system_size) unreferenced.
C7_HeavyHexGeneratorsWellFormed ==
    (Constructed /\ arch.cls = "HeavyHexArchitecture"
                 /\ Get(arch.system_size) \in {65, 433}) =>
        LET cm == Get(arch.coupling_map)
            size == Get(arch.system_size)
        IN  /\ IsSymmetric(cm)
            /\ NoDuplicateEdge(cm)
            /\ NodeSet(cm) = 0..(size - 1)
            /\ size = 433 => OspreyPathNodes \cap OspreyBridgeNodes = {}

(***************************************************************************)
(* Properties of the layout strategies.                                    *)
(***************************************************************************)
\* C4: two consecutive get_virtual_layout calls on one RandomInitialLayout
\* object return the identical sequence, seeded or not.
C4_RandomLayoutIdempotent ==
    rndRet.calls >= 2 => rndRet.virt = rndRet.prev

\* C8: after get_virtual_layout returned L, get_physical_layout returns a
\* sequence of length no_phys_qubits whose entry p is the virtual qubit v with
\* L[v] = p, and unassigned (None) where no such v exists.
C8_PhysicalViewIsInverse ==
    (rndRet.virt # None /\ rndRet.phys # None) =>
        LET L == Get(rndRet.virt)
            r == Get(rndRet.phys)
            n == Get(rnd.no_phys_qubits)
        IN  /\ r.outcome = "ok"
            /\ Len(r.value) = n
            /\ \A p \in 0..(n - 1) :
                  LET vs == {v \in 1..Len(L) : L[v] = p}
                  IN  IF vs = {} THEN r.value[p + 1] = None
                      ELSE r.value[p + 1] \in {Some(v - 1) : v \in vs}

\* C12: RandomInitialLayout.get_virtual_layout with no_virt_qubits = k and
\* no_phys_qubits = n >= k returns a sequence of length k whose entries are
\* pairwise distinct and lie in [0, n), seeded or not.
C12_RandomLayoutDistinctInRange ==
    rndRet.virt # None =>
        LET L == Get(rndRet.virt)
            k == Get(rnd.no_virt_qubits)
            n == Get(rnd.no_phys_qubits)
        IN  /\ Len(L) = k
            /\ \A i, j \in 1..Len(L) : L[i] = L[j] => i = j
            /\ \A i \in 1..Len(L) : L[i] \in 0..(n - 1)

\* an unseeded layout of 2 virtual on 3 physical qubits returned a sequence
\* that is not in ascending order
C12_UnseededDrawOfTwoFromThree ==
    /\ rndRet.virt # None
    /\ rnd.seed = None
    /\ Get(rnd.no_virt_qubits) = 2
    /\ Get(rnd.no_phys_qubits) = 3
    /\ Get(rndRet.virt)[1] > Get(rndRet.virt)[2]

\* C9: no TketPlacementLayout object with a method other than LinePlacement
\* or GraphPlacement survives construction.
C9_UnsupportedMethodRefusedAtConstruction ==
    tket.outcome = "ok" => Get(tket.method) \in {"LinePlacement", "GraphPlacement"}

(***************************************************************************)
(* Properties of the exhaustive search.                                    *)
(***************************************************************************)
\* itertools.permutations(range(n)), the canonical enumeration
Canonical(n) == PermsOf(RangeSet(n), n)

\* position of permutation p in the enumeration canon
CanonicalIndex(canon, p) == CHOOSE i \in 1..Len(canon) : canon[i] = p

\* table holds one entry for each permutation of range(n)
CompleteTable(table, n) ==
    LET canon == Canonical(n)
    IN  /\ Len(table) = Len(canon)
        /\ \A i \in 1..Len(canon) :
              Cardinality({j \in 1..Len(table) : table[j][1] = canon[i]}) = 1

\* p is the canonically first permutation of minimal (sign = 1) or maximal
\* (sign = -1) recorded count in table
FirstExtremal(table, n, p, sign) ==
    LET canon == Canonical(n)
        k == CanonicalIndex(canon, p)
        cnts == [i \in 1..Len(canon) |-> sign * CountOf(table, canon[i])]
    IN  /\ \A i \in 1..Len(canon) : cnts[k] <= cnts[i]
        /\ \A i \in 1..(k - 1) : cnts[k] < cnts[i]

Completed == ret # None
LastCall == Get(ret)

\* C3: BestLayout.get_virtual_layout returns a permutation of minimal, and
\* WorstLayout.get_virtual_layout one of maximal recorded swap count over a
\* table with one entry per permutation of range(no_phys_qubits); among tied
\* permutations it is the first of the canonical enumeration, in whatever
\* order the workers returned.
C3_ExtremumFirstInEnumeration ==
    (Completed /\ LastCall.raised = "None") =>
        LET n == LastCall.no_phys_qubits
            table == Get(prov).table
        IN  /\ CompleteTable(table, n)
            /\ LastCall.value # None
            /\ FirstExtremal(table, n, Get(LastCall.value),
                             IF LastCall.cls = "BestLayout" THEN 1 ELSE -1)

\* a three-qubit search was computed by the workers, the minimum is tied, and
\* BestLayout returned the first of the tied permutations, which is not the
\* first permutation of the enumeration
C3_TieInComputedTable ==
    /\ Completed
    /\ LastCall.source = "computed"
    /\ LastCall.raised = "None"
    /\ LastCall.cls = "BestLayout"
    /\ LastCall.no_phys_qubits = 3
    /\ LET table == Get(LastCall.table)
           k == CanonicalIndex(Canonical(3), Get(LastCall.value))
       IN  /\ k > 1
           /\ \E j \in (k + 1)..Len(table) : table[j][2] = table[k][2]

\* C5: when the file of the search key holds the table an earlier search
\* persisted, a search on a fresh layout object loads it, invokes the router
\* zero times, and returns best and worst with the swap counts of the search
\* that computed the table.
C5_CacheRoundTrip ==
    (Completed /\ LastCall.fresh /\ LastCall.was_persisted) =>
        /\ LastCall.source = "cache"
        /\ LastCall.router_calls = 0
        /\ LastCall.raised = "None"
        /\ <<CountOf(Get(LastCall.table), Get(LastCall.best)),
             CountOf(Get(LastCall.table), Get(LastCall.worst))>>
               = Get(LastCall.persisted_bounds)

\* a fresh object's search was answered from a persisted table whose best and
\* worst counts differ
C5_FreshObjectServedFromCache ==
    /\ Completed
    /\ LastCall.fresh
    /\ LastCall.was_persisted
    /\ LastCall.source = "cache"
    /\ LastCall.router_calls = 0
    /\ Get(LastCall.persisted_bounds)[1] # Get(LastCall.persisted_bounds)[2]

\* C10: when the cache file is missing, unreadable or not deserializable,
\* get_virtual_layout recomputes the whole table, returns the best/worst
\* layout of the recomputed table and persists it, and no error reaches the
\* caller.
C10_DamagedCacheIsNotFatal ==
    (Completed /\ LastCall.source # "memo"
               /\ LastCall.file_before.kind \in {"missing", "unreadable", "corrupt"}) =>
        LET n == LastCall.no_phys_qubits
        IN  /\ LastCall.source = "computed"
            /\ LastCall.raised = "None"
            /\ LastCall.router_calls = Len(Canonical(n))
            /\ CompleteTable(Get(LastCall.table), n)
            /\ FirstExtremal(Get(LastCall.table), n, Get(LastCall.best), 1)
            /\ FirstExtremal(Get(LastCall.table), n, Get(LastCall.worst), -1)
            /\ LastCall.file_after = Pickled(Get(LastCall.table))

\* the constructor of lay was given fewer physical than virtual qubits
OverCapacity == lay.cls # "None" /\ lay.args[2] < lay.args[1]

BothWays(links) == links \cup {<<e[2], e[1]>> : e \in links}

\* first index of the ring in row r, column c of an m x n ring lattice
RingBase(r, c, n) == (r * n + c) * 8

\* the links of the ring lattice: per ring the cycle 0-1-...-7-0; between a
\* ring and its right neighbour 2-7 and 3-6; between a ring and the ring
\* above it 5-0 and 4-1
ExpectedRingLinks(m, n) ==
    UNION {
        {<<RingBase(r, c, n) + i, RingBase(r, c, n) + ((i + 1) % 8)>> : i \in 0..7}
        \cup (IF c + 1 < n
              THEN {<<RingBase(r, c, n) + 2, RingBase(r, c + 1, n) + 7>>,
                    <<RingBase(r, c, n) + 3, RingBase(r, c + 1, n) + 6>>}
              ELSE {})
        \cup (IF r > 0
              THEN {<<RingBase(r, c, n) + 5, RingBase(r - 1, c, n)>>,
                    <<RingBase(r, c, n) + 4, RingBase(r - 1, c, n) + 1>>}
              ELSE {})
        : r \in 0..(m - 1), c \in 0..(n - 1)}

\* C13: RigettiArchitecture(m, n) produces exactly, each once per direction,
\* one 8-cycle per ring, the links 2-7 and 3-6 between horizontally adjacent
\* rings and the links 5-0 and 4-1 between vertically adjacent rings, with
\* rings numbered row-major; for m = n = 1 these are the 16 directed edges of
\* one 8-cycle.
C13_RigettiLattice ==
    (Constructed /\ arch.cls = "RigettiArchitecture") =>
        LET cm == Get(arch.coupling_map)
            m == Get(arch.m)
            n == Get(arch.n)
        IN  /\ EdgeSet(cm) = BothWays(ExpectedRingLinks(m, n))
            /\ NoDuplicateEdge(cm)
            /\ (m = 1 /\ n = 1) => Len(cm) = 16

\* a 2 x 2 ring lattice was constructed: it has links of all three kinds
C13_TwoByTwoRings ==
    /\ Constructed
    /\ arch.cls = "RigettiArchitecture"
    /\ Get(arch.m) = 2
    /\ Get(arch.n) = 2
    /\ Len(Get(arch.coupling_map)) = 80

\* the links of an m x n grid whose cell (i, j) has index i*n + j
ExpectedGridLinks(m, n) ==
    {<<i * n + j, i * n + j + 1>> : i \in 0..(m - 1), j \in 0..(n - 2)}
    \cup {<<i * n + j, (i + 1) * n + j>> : i \in 0..(m - 2), j \in 0..(n - 1)}

\* C14: Grid(m, n) with m, n >= 1 numbers the cells row-major and emits, once
\* per direction, exactly the links between horizontally and vertically
\* adjacent cells: 2*(m*(n-1) + n*(m-1)) directed edges, 24 for a 3 x 3 grid.
C14_GridLattice ==
    (Constructed /\ arch.cls \in {"Grid", "SquareGrid"}
                 /\ Get(arch.m) >= 1 /\ Get(arch.n) >= 1) =>
        LET cm == Get(arch.coupling_map)
            m == Get(arch.m)
            n == Get(arch.n)
        IN  /\ EdgeSet(cm) = BothWays(ExpectedGridLinks(m, n))
            /\ Len(cm) = 2 * (m * (n - 1) + n * (m - 1))
            /\ NodeSet(cm) \subseteq 0..(m * n - 1)
            /\ (m = 3 /\ n = 3) => Len(cm) = 24

\* Grid(9, 3, 3) was constructed and has 24 directed edges
C14_ThreeByThreeGrid ==
    /\ Constructed
    /\ arch.cls = "Grid"
    /\ Get(arch.m) = 3
    /\ Get(arch.n) = 3
    /\ Len(Get(arch.coupling_map)) = 24

(***************************************************************************)
(* Seeds, cache writes and cache keys of the exhaustive search.            *)
(***************************************************************************)
\* C15: on one search object a repeat call with the seed unchanged returns
\* the same (best, worst) pair, and every call returns bounds derived from
\* the table of the seed the object has at that call, never bounds memoized
\* under an earlier seed.
C15_SeedChangeForcesCurrentTable ==
    [][ret' # None =>
          /\ Get(prov').file = Get(ret').file
          /\ ret # None =>
                <<Get(ret').best, Get(ret').worst>> = <<Get(ret).best, Get(ret).worst>>
       ]_vars

\* C16: a cache file changes only in the step that ends the parallel phase,
\* when every enumerated permutation has its swap count; that step writes one
\* file, the one of the search key, with a table of one entry per
\* permutation; a call answered from the memo or from the cache writes
\* nothing, and no call writes more than once.
C16_CacheWrittenOnceComplete ==
    [][/\ files' # files =>
             /\ job.active
             /\ ~job'.active
             /\ \A i \in 1..Len(job.perms) : job.outputs[i] # None
             /\ ret' # None
             /\ \A f \in FileNames : f # Get(ret').file => files'[f] = files[f]
             /\ files'[Get(ret').file].kind = "table"
             /\ CompleteTable(files'[Get(ret').file].table, Get(ret').no_phys_qubits)
       /\ (ret' # None /\ Get(ret').source \in {"memo", "cache"}) =>
             /\ files' = files
             /\ Get(ret').writes = 0
       /\ ret' # None => Get(ret').writes <= 1
      ]_vars

\* a three-qubit search ended with one write of a six-entry table to a file
\* that was missing
C16_SixEntryTableWritten ==
    /\ Completed
    /\ LastCall.source = "computed"
    /\ LastCall.no_phys_qubits = 3
    /\ LastCall.writes = 1
    /\ LastCall.file_before = Missing
    /\ LastCall.file_after.kind = "table"
    /\ Len(LastCall.file_after.table) = 6

\* C17: the bounds a search returns derive from a table that was computed on
\* the coupling map of the backend the search was asked for.
C17_TableOfOwnCouplingMap ==
    (Completed /\ LastCall.raised = "None") => Get(prov).coupling = lay.coupling

====
